---- MODULE Spec2Model ----
(***************************************************************************)
(* Model of exchange_rate_app.py: the startup validation, the concurrent   *)
(* fetch of one NBP table per day through asyncio.gather, the two          *)
(* displayers and the Y/N interaction loop.                                *)
(*                                                                         *)
(* Strings the program inspects (the startup input, the Y/N answer, the    *)
(* currency abbreviation, the currency codes of a table) are sequences of  *)
(* one-character strings, so that int() and str.upper() are computed.      *)
(* Dates are the "%Y-%m-%d" text, held as the triple <<year, month, day>>; *)
(* strptime / timedelta / strftime go through the proleptic ordinal.       *)
(***************************************************************************)
EXTENDS Integers, Sequences, FiniteSets, Bags, TLC

(* ------------------------------ bounds --------------------------------- *)

\* Largest accepted day count the model enters at the startup prompt.
MaxDays == 2

(* ------------------------- program constants --------------------------- *)

\* `if days > 10` (line 105).
DayLimit == 10

(* ------------------------------ strings -------------------------------- *)

LowerAlpha ==
    << "a", "b", "c", "d", "e", "f", "g", "h", "i", "j", "k", "l", "m",
       "n", "o", "p", "q", "r", "s", "t", "u", "v", "w", "x", "y", "z" >>

UpperAlpha ==
    << "A", "B", "C", "D", "E", "F", "G", "H", "I", "J", "K", "L", "M",
       "N", "O", "P", "Q", "R", "S", "T", "U", "V", "W", "X", "Y", "Z" >>

DigitChars == << "0", "1", "2", "3", "4", "5", "6", "7", "8", "9" >>

\* The capital of each lower-case letter.
CapitalOf ==
    [c \in { LowerAlpha[i] : i \in 1..Len(LowerAlpha) } |->
        UpperAlpha[CHOOSE i \in 1..Len(LowerAlpha) : LowerAlpha[i] = c]]

\* str.upper() on one character: a lower-case letter maps to its capital,
\* every other character is kept.
UpperChar(c) == IF c \in DOMAIN CapitalOf THEN CapitalOf[c] ELSE c

\* A variant of str.upper() that leaves the text as typed.
UpperAsTyped(s) == s

\* str.upper().
Upper(s) == [i \in 1..Len(s) |-> UpperChar(s[i])]

IsDigit(c) == \E i \in 1..Len(DigitChars) : DigitChars[i] = c

DigitValue(c) == (CHOOSE i \in 1..Len(DigitChars) : DigitChars[i] = c) - 1

RECURSIVE StripLeft(_)
StripLeft(s) ==
    IF s # <<>> /\ Head(s) = " " THEN StripLeft(Tail(s)) ELSE s

RECURSIVE StripRight(_)
StripRight(s) ==
    IF s # <<>> /\ s[Len(s)] = " "
    THEN StripRight(SubSeq(s, 1, Len(s) - 1))
    ELSE s

RECURSIVE DecimalValue(_)
DecimalValue(s) ==
    IF s = <<>> THEN 0
    ELSE 10 * DecimalValue(SubSeq(s, 1, Len(s) - 1)) + DigitValue(s[Len(s)])

\* int(text): surrounding blanks are stripped, one sign is allowed, the
\* rest must be a non-empty run of decimal digits; anything else raises
\* ValueError.
ParseInt(text) ==
    LET t      == StripRight(StripLeft(text))
        signed == t # <<>> /\ Head(t) \in {"+", "-"}
        digits == IF signed THEN Tail(t) ELSE t
        ok     == digits # <<>> /\ \A i \in 1..Len(digits) : IsDigit(digits[i])
    IN  IF ~ok THEN [ok |-> FALSE, val |-> 0]
        ELSE [ok  |-> TRUE,
              val |-> IF signed /\ Head(t) = "-"
                      THEN 0 - DecimalValue(digits)
                      ELSE DecimalValue(digits)]

(* ------------------------------- dates --------------------------------- *)

IsLeap(y) == y % 4 = 0 /\ (y % 100 # 0 \/ y % 400 = 0)

DaysInMonth(y, m) ==
    IF m = 2 THEN (IF IsLeap(y) THEN 29 ELSE 28)
    ELSE IF m \in {4, 6, 9, 11} THEN 30 ELSE 31

DaysBeforeYear(y) ==
    LET p == y - 1 IN p * 365 + (p \div 4) - (p \div 100) + (p \div 400)

RECURSIVE DaysBeforeMonth(_, _)
DaysBeforeMonth(y, m) ==
    IF m = 1 THEN 0 ELSE DaysBeforeMonth(y, m - 1) + DaysInMonth(y, m - 1)

\* datetime.strptime(text, "%Y-%m-%d"): the day's proleptic ordinal.
Strptime(ymd) == DaysBeforeYear(ymd[1]) + DaysBeforeMonth(ymd[1], ymd[2]) + ymd[3]

YearOf(ord) ==
    CHOOSE y \in ((ord \div 366) - 1)..((ord \div 365) + 1) :
        DaysBeforeYear(y) < ord /\ ord <= DaysBeforeYear(y + 1)

\* The year, month and day of the day with that ordinal.
OrdToYmd(ord) ==
    LET y == YearOf(ord)
        n == ord - DaysBeforeYear(y)
        m == CHOOSE k \in 1..12 :
                 DaysBeforeMonth(y, k) < n /\ n <= DaysBeforeMonth(y, k) + DaysInMonth(y, k)
    IN  << y, m, n - DaysBeforeMonth(y, m) >>

\* Values datetime.today().strftime("%Y-%m-%d") takes in the model: the
\* day after a leap day and a first of January.
Todays == { << 2024, 3, 1 >>, << 2026, 1, 1 >> }

\* The ordinals the model formats: the days of Todays and the twelve days
\* before each.  The table is computed once.
OrdinalsUsed == UNION { (Strptime(t) - 12)..Strptime(t) : t \in Todays }

YmdTable == [ord \in OrdinalsUsed |-> OrdToYmd(ord)]

\* strftime("%Y-%m-%d") and str(date): the text of the day with that ordinal.
Strftime(ord) == YmdTable[ord]

(* ------------------------------- data ---------------------------------- *)

EUR == << "E", "U", "R" >>
USD == << "U", "S", "D" >>
GBP == << "G", "B", "P" >>
CHF == << "C", "H", "F" >>

\* One element of a table's "rates" list; mid is in hundredths.
Rate(name, code, mid) == [currency |-> name, code |-> code, mid |-> mid]

\* Response bodies of a 200 answer: the JSON array with one table object.
\* TableA lists USD before EUR with another currency between them; TableB
\* has neither EUR nor USD and lists the code GBP twice.
TableA ==
    [rates |-> << Rate("dolar amerykanski", USD, 400),
                  Rate("funt szterling", GBP, 520),
                  Rate("euro", EUR, 430) >>]

TableB ==
    [rates |-> << Rate("funt szterling", GBP, 521),
                  Rate("frank szwajcarski", CHF, 450),
                  Rate("funt (drugi wpis)", GBP, 999) >>]

Bodies == { << TableA >>, << TableB >>, << >> }

\* What the server answers to one GET.
Responses ==
    { [status |-> 200, body |-> b] : b \in Bodies }
      \cup { [status |-> 404, body |-> << >>], [status |-> 500, body |-> << >>] }

\* Values of a get_rates coroutine: not finished, the parsed JSON, None, or
\* the RuntimeError it raised.
Pending   == [kind |-> "pending", body |-> << >>, status |-> 0]
None      == [kind |-> "none", body |-> << >>, status |-> 0]
Json(b)   == [kind |-> "json", body |-> b, status |-> 0]
Raised(s) == [kind |-> "exc", body |-> << >>, status |-> s]

\* A variant of get_rates for which only 200 is not an error.
GetRatesStrict(response) ==
    IF response.status = 200 THEN Json(response.body) ELSE Raised(response.status)

\* A variant of get_rates that swallows an error status as "no data".
GetRatesLenient(response) ==
    IF response.status = 200 THEN Json(response.body) ELSE None

\* NBPRateProvider.get_rates once the response has arrived.
GetRates(response) ==
    IF response.status = 200 THEN Json(response.body)
    ELSE IF response.status = 404 THEN None
    ELSE Raised(response.status)

\* Python's `result and result != []`.
Truthy(result) == result.kind = "json" /\ result.body # << >>

(* ------------------------------ console -------------------------------- *)

NoDate == << 0, 0, 0 >>

Header(date)   == [kind |-> "header", text |-> "Data as of day", date |-> date, code |-> << >>, mid |-> 0]
RateLine(c)    == [kind |-> "rate", text |-> c.currency, date |-> NoDate, code |-> c.code, mid |-> c.mid]
TextLine(t)    == [kind |-> "text", text |-> t, date |-> NoDate, code |-> << >>, mid |-> 0]
BlankLine      == [kind |-> "blank", text |-> "", date |-> NoDate, code |-> << >>, mid |-> 0]

NoDataAvailable == TextLine("No data available.")
NoData          == TextLine("No data.")
NoAdditional    == TextLine("No additional currencies available.")
NoSuchCurrency  == TextLine("There is no such currency on the list.")
IncorrectSelection == TextLine("Incorrect selection, select 'Y' or 'N'.")
ErrorNotInt     == TextLine("Error: invalid literal for int() with base 10")
ErrorTooMany    == TextLine("Error: The number of days cannot be more than 10")

(* ----------------------------- displayers ------------------------------ *)

\* (datetime.strptime(TODAY, '%Y-%m-%d') - timedelta(days=i - 1)).date()
\* for the i-th element of enumerate(results, 1).
LabelShifted(today, i) == Strftime(Strptime(today) - i)

DateToPrint(today, i) == Strftime(Strptime(today) - (i - 1))

\* A variant of the EUR/USD filter that prints every currency.
BasicRateLinesAll(rates) == [k \in 1..Len(rates) |-> RateLine(rates[k])]

\* The inner loop of display_basic_currencies: one line per currency whose
\* code is EUR or USD, in list order.
RECURSIVE BasicRateLines(_)
BasicRateLines(rates) ==
    IF rates = << >> THEN << >>
    ELSE (IF Head(rates).code \in {EUR, USD} THEN << RateLine(Head(rates)) >> ELSE << >>)
         \o BasicRateLines(Tail(rates))

\* A variant of the outer loop's pass that tells an empty list from None.
BasicDayLinesDistinct(today, i, result) ==
    << Header(DateToPrint(today, i)) >>
      \o (IF Truthy(result) THEN BasicRateLines(result.body[1].rates)
          ELSE IF result = None THEN << NoData >>
          ELSE << TextLine("Empty table.") >>)
      \o << BlankLine >>

\* One pass of the outer loop of display_basic_currencies.
BasicDayLines(today, i, result) ==
    << Header(DateToPrint(today, i)) >>
      \o (IF Truthy(result) THEN BasicRateLines(result.body[1].rates) ELSE << NoData >>)
      \o << BlankLine >>

RECURSIVE BasicLoop(_, _, _)
BasicLoop(today, rs, i) ==
    IF i > Len(rs) THEN << >>
    ELSE BasicDayLines(today, i, rs[i]) \o BasicLoop(today, rs, i + 1)

\* BasicRateDisplayer.display_basic_currencies: the lines it prints.
DisplayBasic(today, rs) ==
    IF rs = << >> THEN << NoDataAvailable >> ELSE BasicLoop(today, rs, 1)

\* A variant of the inner loop without the `break`.
AdditionalRateLinesNoBreak(rates, choice) ==
    LET hit(c) == c.code = choice
        hits   == SelectSeq(rates, hit)
    IN  [k \in 1..Len(hits) |-> RateLine(hits[k])]

\* The inner loop of display_additional_currencies: the first currency with
\* the chosen code, then `break`.
RECURSIVE AdditionalRateLines(_, _)
AdditionalRateLines(rates, choice) ==
    IF rates = << >> THEN << >>
    ELSE IF Head(rates).code = choice THEN << RateLine(Head(rates)) >>
    ELSE AdditionalRateLines(Tail(rates), choice)

\* A variant of the outer loop's pass that reports a table without the
\* chosen code as a day without data.
AdditionalDayLinesOrNoData(today, i, result, choice) ==
    << Header(DateToPrint(today, i)) >>
      \o (IF Truthy(result) /\ AdditionalRateLines(result.body[1].rates, choice) # << >>
          THEN AdditionalRateLines(result.body[1].rates, choice)
          ELSE << NoData >>)
      \o << BlankLine >>

\* One pass of the outer loop of display_additional_currencies.
AdditionalDayLines(today, i, result, choice) ==
    << Header(DateToPrint(today, i)) >>
      \o (IF Truthy(result) THEN AdditionalRateLines(result.body[1].rates, choice)
          ELSE << NoData >>)
      \o << BlankLine >>

RECURSIVE AdditionalLoop(_, _, _, _)
AdditionalLoop(today, rs, i, choice) ==
    IF i > Len(rs) THEN << >>
    ELSE AdditionalDayLines(today, i, rs[i], choice) \o AdditionalLoop(today, rs, i + 1, choice)

\* A variant of display_additional_currencies that shows the days even for
\* a code that is not on the list.
DisplayAdditionalUnchecked(today, available, rs, typed) ==
    IF available = {} THEN << NoAdditional >>
    ELSE AdditionalLoop(today, rs, 1, Upper(typed))

\* AdditionalRateDisplayer.display_additional_currencies: the lines it
\* prints; `typed` is the line read by its input(), which is read only
\* when the set is not empty.
DisplayAdditional(today, available, rs, typed) ==
    IF available = {} THEN << NoAdditional >>
    ELSE LET currency_choice == Upper(typed)
         IN  IF currency_choice \in available
             THEN AdditionalLoop(today, rs, 1, currency_choice)
             ELSE << NoSuchCurrency >>

\* A variant of the set of additional currencies that keeps EUR and USD.
AdditionalCurrenciesAll(rs) ==
    UNION { { rs[i].body[1].rates[k].code : k \in 1..Len(rs[i].body[1].rates) } :
            i \in { j \in 1..Len(rs) : Truthy(rs[j]) } }

\* Lines 86-90 of main: the codes of every fetched table except EUR, USD.
AdditionalCurrencies(rs) ==
    UNION { { rs[i].body[1].rates[k].code : k \in 1..Len(rs[i].body[1].rates) }
              \ {EUR, USD} :
            i \in { j \in 1..Len(rs) : Truthy(rs[j]) } }

(* ------------------------------- inputs -------------------------------- *)

\* Lines typed at "Enter the number of days (maximum 10):".
StartInputs ==
    { << DigitChars[n + 1] >> : n \in 0..MaxDays }
      \cup { << "+", "1" >>, << "-", "1" >>, << "1", "1" >>, << " ", "1", "2" >>,
             << "a", "b", "c" >>, << "2", ".", "5" >>, << >> }

\* Lines typed at "Do you want to see rates for other currencies? (Y/N):".
ChoiceInputs ==
    { << "Y" >>, << "y" >>, << "N" >>, << "n" >>, << "x" >>, << >> }

\* Lines typed at "Enter the currency abbreviation (available: ...):".
CodeInputs ==
    { GBP, << "g", "b", "p" >>, << "C", "h", "f" >>, << "e", "u", "r" >>, << "x", "x", "x" >> }

\* Marks that no line has been read at a prompt.
NoInput == << "(nothing read)" >>

(* ------------------------------- state --------------------------------- *)

VARIABLES
    pc,                     \* where the process is: "start", "rejected", "gather",
                            \* "crashed", "prompt", "done"
    today,                  \* TODAY (line 8)
    typedDays,              \* the line read at the startup prompt
    days,                   \* int(typedDays), when it parsed
    tasks,                  \* the get_rates coroutines handed to gather
    requests,               \* the GETs sent so far: a bag of dates
    served,                 \* what the server answered, per requested date
    completed,              \* indices of the finished tasks, in completion order
    outer,                  \* the future returned by asyncio.gather
    results,                \* main's `results`
    additional_currencies,  \* main's `additional_currencies`
    out,                    \* lines printed by the latest step
    basicCalls,             \* calls of display_basic_currencies so far
    additionalCalls,        \* calls of display_additional_currencies in the latest step
    lastChoice,             \* the line read by the latest Y/N input()
    lastCode                \* the line read by the latest abbreviation input()

vars ==
    << pc, today, typedDays, days, tasks, requests, served, completed, outer,
       results, additional_currencies, out, basicCalls, additionalCalls,
       lastChoice, lastCode >>

NoFuture == [st |-> "none", value |-> << >>, status |-> 0]

Init ==
    /\ pc = "start"
    /\ today \in Todays
    /\ typedDays = NoInput
    /\ days = 0
    /\ tasks = << >>
    /\ requests = EmptyBag
    /\ served = {}
    /\ completed = << >>
    /\ outer = NoFuture
    /\ results = << >>
    /\ additional_currencies = {}
    /\ out = << >>
    /\ basicCalls = 0
    /\ additionalCalls = 0
    /\ lastChoice = NoInput
    /\ lastCode = NoInput

(* ----------------------------- startup --------------------------------- *)

\* A variant of the startup check without the upper limit.
ValidateNoLimit(text) ==
    LET parsed == ParseInt(text)
    IN  IF ~parsed.ok THEN [ok |-> FALSE, days |-> 0, error |-> ErrorNotInt]
        ELSE [ok |-> TRUE, days |-> parsed.val, error |-> BlankLine]

\* A variant of the startup check that also turns down a day count below
\* one.
ValidatePositive(text) ==
    LET parsed == ParseInt(text)
    IN  IF ~parsed.ok THEN [ok |-> FALSE, days |-> 0, error |-> ErrorNotInt]
        ELSE IF parsed.val > DayLimit \/ parsed.val < 1
        THEN [ok |-> FALSE, days |-> parsed.val, error |-> ErrorTooMany]
        ELSE [ok |-> TRUE, days |-> parsed.val, error |-> BlankLine]

\* Lines 103-108: int() of the typed line and the `days > 10` test; both
\* failures are a ValueError, printed as "Error: ...".
Validate(text) ==
    LET parsed == ParseInt(text)
    IN  IF ~parsed.ok THEN [ok |-> FALSE, days |-> 0, error |-> ErrorNotInt]
        ELSE IF parsed.val > DayLimit
        THEN [ok |-> FALSE, days |-> parsed.val, error |-> ErrorTooMany]
        ELSE [ok |-> TRUE, days |-> parsed.val, error |-> BlankLine]

\* A variant of the request dates in which every request asks for today.
RequestDateToday(t, i) == Strftime(Strptime(t))

\* Line 80: the date of the request for i in range(days).
RequestDate(t, i) == Strftime(Strptime(t) - i)

\* Lines 80-81: one get_rates coroutine per i in range(days).
MakeTasks(t, n) ==
    [k \in 1..n |-> [date |-> RequestDate(t, k - 1), st |-> "created", ret |-> Pending]]

\* A variant of gather that lists the values in completion order.
GatherResultByCompletion(ts, order) == [k \in 1..Len(order) |-> ts[order[k]].ret]

\* The value of asyncio.gather(*tasks): the tasks' values in the order of
\* the arguments.
GatherResult(ts, order) == [k \in 1..Len(ts) |-> ts[k].ret]

\* Lines 84-90 of main, up to the first input(): show the basic currencies
\* and collect the additional ones.
AfterGather(rs) ==
    /\ results' = rs
    /\ out' = DisplayBasic(today, rs)
    /\ basicCalls' = basicCalls + 1
    /\ additional_currencies' = AdditionalCurrencies(rs)
    /\ pc' = "prompt"

\* Lines 102-113 and 77-82: read the day count; on ValueError print the
\* error and end; otherwise create the tasks and await gather.  With no
\* task gather's future is already done and main does not suspend.
Start ==
    /\ pc = "start"
    /\ \E text \in StartInputs :
         LET v == Validate(text)
         IN  /\ typedDays' = text
             /\ days' = v.days
             /\ IF ~v.ok
                THEN /\ pc' = "rejected"
                     /\ out' = << v.error >>
                     /\ UNCHANGED << tasks, outer, results, additional_currencies, basicCalls >>
                ELSE /\ tasks' = MakeTasks(today, v.days)
                     /\ IF tasks' = << >>
                        THEN /\ outer' = [st |-> "result", value |-> << >>, status |-> 0]
                             /\ AfterGather(<< >>)
                        ELSE /\ outer' = [st |-> "pending", value |-> << >>, status |-> 0]
                             /\ pc' = "gather"
                             /\ UNCHANGED << out, results, additional_currencies, basicCalls >>
    /\ UNCHANGED << today, requests, served, completed, additionalCalls,
                    lastChoice, lastCode >>

(* ------------------------------ fetching ------------------------------- *)

\* Lines 19-21: task i sends its GET.
Send(i) ==
    /\ pc = "gather"
    /\ i \in 1..Len(tasks)
    /\ tasks[i].st = "created"
    /\ tasks' = [tasks EXCEPT ![i].st = "sent"]
    /\ requests' = requests (+) SetToBag({tasks[i].date})
    /\ UNCHANGED << pc, today, typedDays, days, served, completed, outer, results,
                    additional_currencies, out, basicCalls, additionalCalls,
                    lastChoice, lastCode >>

\* A variant of gather's callback that hands over the list as soon as one
\* task has finished without an exception.
OuterAfterFirstDone(ts, order, i) ==
    IF outer.st # "pending" THEN outer
    ELSE IF ts[i].ret.kind = "exc"
    THEN [st |-> "exception", value |-> << >>, status |-> ts[i].ret.status]
    ELSE [st |-> "result", value |-> [k \in 1..Len(ts) |-> ts[k].ret], status |-> 0]

\* A variant of gather's callback that waits for every task before it
\* reports the first exception.
OuterAfterJoinAll(ts, order, i) ==
    IF outer.st # "pending" THEN outer
    ELSE IF \E k \in 1..Len(ts) : ts[k].st # "done" THEN outer
    ELSE IF \E k \in 1..Len(ts) : ts[k].ret.kind = "exc"
    THEN [st |-> "exception", value |-> << >>,
          status |-> ts[CHOOSE k \in 1..Len(ts) : ts[k].ret.kind = "exc"].ret.status]
    ELSE [st |-> "result", value |-> [k \in 1..Len(ts) |-> ts[k].ret], status |-> 0]

\* gather's done-callback for task i (return_exceptions is False): once the
\* outer future is done nothing changes; the first exception is set on the
\* outer future at once; the result is set when the last task finishes.
OuterAfter(ts, order, i) ==
    IF outer.st # "pending" THEN outer
    ELSE IF ts[i].ret.kind = "exc"
    THEN [st |-> "exception", value |-> << >>, status |-> ts[i].ret.status]
    ELSE IF \A k \in 1..Len(ts) : ts[k].st = "done"
    THEN [st |-> "result", value |-> GatherResult(ts, order), status |-> 0]
    ELSE outer

\* Lines 21-27: the response of task i's GET arrives and get_rates returns
\* or raises; gather's callback runs.
Respond(i) ==
    /\ pc = "gather"
    /\ i \in 1..Len(tasks)
    /\ tasks[i].st = "sent"
    /\ \E response \in Responses :
         /\ tasks' = [tasks EXCEPT ![i].st = "done", ![i].ret = GetRates(response)]
         /\ served' = served \cup { [date |-> tasks[i].date, response |-> response] }
    /\ completed' = Append(completed, i)
    /\ outer' = OuterAfter(tasks', completed', i)
    /\ UNCHANGED << pc, today, typedDays, days, requests, results,
                    additional_currencies, out, basicCalls, additionalCalls,
                    lastChoice, lastCode >>

\* asyncio.run after main raised: the tasks still running are cancelled.
CancelRemaining(ts) ==
    [k \in 1..Len(ts) |-> IF ts[k].st = "done" THEN ts[k] ELSE [ts[k] EXCEPT !.st = "cancelled"]]

\* Line 82 onwards: main wakes up from `await asyncio.gather(*tasks)`, with
\* the list of results or with the exception, which nothing catches.
MainResume ==
    /\ pc = "gather"
    /\ outer.st \in {"result", "exception"}
    /\ IF outer.st = "result"
       THEN /\ AfterGather(outer.value)
            /\ UNCHANGED tasks
       ELSE /\ pc' = "crashed"
            /\ tasks' = CancelRemaining(tasks)
            /\ UNCHANGED << results, out, basicCalls, additional_currencies >>
    /\ UNCHANGED << today, typedDays, days, requests, served, completed, outer,
                    additionalCalls, lastChoice, lastCode >>

(* --------------------------- interaction loop -------------------------- *)

\* A variant of the loop body that also leaves the loop after showing a
\* currency.
LoopIterationLeaving(choice, typed) ==
    IF Upper(choice) = << "Y" >>
    THEN [pc |-> "done", calls |-> 1,
          codeRead |-> additional_currencies # {},
          out |-> DisplayAdditional(today, additional_currencies, results, typed)]
    ELSE IF Upper(choice) = << "N" >>
    THEN [pc |-> "done", calls |-> 0, codeRead |-> FALSE, out |-> << >>]
    ELSE [pc |-> "prompt", calls |-> 0, codeRead |-> FALSE, out |-> << IncorrectSelection >>]

\* Lines 93-99: one pass of `while True` for the answer `choice`; `typed`
\* is the abbreviation entered if display_additional_currencies asks.
LoopIteration(choice, typed) ==
    IF Upper(choice) = << "Y" >>
    THEN [pc |-> "prompt", calls |-> 1,
          codeRead |-> additional_currencies # {},
          out |-> DisplayAdditional(today, additional_currencies, results, typed)]
    ELSE IF Upper(choice) = << "N" >>
    THEN [pc |-> "done", calls |-> 0, codeRead |-> FALSE, out |-> << >>]
    ELSE [pc |-> "prompt", calls |-> 0, codeRead |-> FALSE, out |-> << IncorrectSelection >>]

\* A variant of the loop step in which showing a currency takes it off the
\* set of available ones.
AnswerForgetting ==
    /\ pc = "prompt"
    /\ \E choice \in ChoiceInputs, typed \in CodeInputs :
         \E r \in { LoopIteration(choice, typed) } :
             /\ pc' = r.pc
             /\ out' = r.out
             /\ additionalCalls' = r.calls
             /\ lastChoice' = choice
             /\ lastCode' = IF r.codeRead THEN typed ELSE NoInput
             /\ additional_currencies' =
                    IF r.codeRead THEN additional_currencies \ { Upper(typed) }
                    ELSE additional_currencies
    /\ UNCHANGED << today, typedDays, days, tasks, requests, served, completed, outer,
                    results, basicCalls >>

\* Lines 92-99: the user answers the Y/N prompt (and the abbreviation
\* prompt, when it is shown).
Answer ==
    /\ pc = "prompt"
    /\ \E choice \in ChoiceInputs, typed \in CodeInputs :
         \E r \in { LoopIteration(choice, typed) } :
             /\ pc' = r.pc
             /\ out' = r.out
             /\ additionalCalls' = r.calls
             /\ lastChoice' = choice
             /\ lastCode' = IF r.codeRead THEN typed ELSE NoInput
    /\ UNCHANGED << today, typedDays, days, tasks, requests, served, completed, outer,
                    results, additional_currencies, basicCalls >>

Next ==
    \/ Start
    \/ \E i \in 1..MaxDays : Send(i)
    \/ \E i \in 1..MaxDays : Respond(i)
    \/ MainResume
    \/ Answer

Spec == Init /\ [][Next]_vars

(* ------------------- the basic displayer on its own -------------------- *)

\* The values of one slot of a list of results.
SlotValues == { None } \cup { Json(b) : b \in Bodies }

\* The lists of results of up to MaxDays days.
ResultLists == UNION { [1..n -> SlotValues] : n \in 0..MaxDays }

\* A variant of display_basic_currencies that takes the days off the list
\* as it prints them.
BasicCallConsuming(t, rs) ==
    [out |-> DisplayBasic(t, rs), results |-> IF rs = << >> THEN rs ELSE Tail(rs)]

\* One call of display_basic_currencies(results): the lines it prints and
\* the list as the call leaves it; the method only reads its argument.
BasicCall(t, rs) == [out |-> DisplayBasic(t, rs), results |-> rs]

\* A caller that holds any list of results, before its first call.
InitDisplay ==
    /\ pc = "display"
    /\ today \in Todays
    /\ results \in ResultLists
    /\ days = Len(results)
    /\ typedDays = NoInput
    /\ tasks = << >>
    /\ requests = EmptyBag
    /\ served = {}
    /\ completed = << >>
    /\ outer = NoFuture
    /\ additional_currencies = {}
    /\ out = << >>
    /\ basicCalls = 0
    /\ additionalCalls = 0
    /\ lastChoice = NoInput
    /\ lastCode = NoInput

\* The caller calls display_basic_currencies on its list, up to twice.
CallBasic ==
    /\ pc = "display"
    /\ basicCalls < 2
    /\ \E r \in { BasicCall(today, results) } :
         /\ out' = r.out
         /\ results' = r.results
    /\ basicCalls' = basicCalls + 1
    /\ UNCHANGED << pc, today, typedDays, days, tasks, requests, served, completed,
                    outer, additional_currencies, additionalCalls, lastChoice, lastCode >>

SpecDisplay == InitDisplay /\ [][CallBasic]_vars

(* ===================== properties of the program ======================= *)

\* The calendar, written out: today and the three days before it, for
\* each day of Todays.
DaysBack ==
    [t \in Todays |->
        IF t = << 2024, 3, 1 >>
        THEN << << 2024, 3, 1 >>, << 2024, 2, 29 >>, << 2024, 2, 28 >>, << 2024, 2, 27 >> >>
        ELSE << << 2026, 1, 1 >>, << 2025, 12, 31 >>, << 2025, 12, 30 >>, << 2025, 12, 29 >> >>]

\* The date `i` days before today (i = 0 is today).
TodayMinus(i) == DaysBack[today][i + 1]

\* The fetch phase ended with a list of results and main went on.
Fetched == pc \in {"prompt", "done"}

\* The server's answers to the request for `date`.
AnswersFor(date) == { e.response : e \in { x \in served : x.date = date } }

\* The dates of the header lines of `lines`, in order.
HeaderDates(lines) ==
    LET isHeader(l) == l.kind = "header"
        hs == SelectSeq(lines, isHeader)
    IN  [k \in 1..Len(hs) |-> hs[k].date]

\* `lines` cut at its blank separator lines: the blocks before each blank
\* line, and what follows the last one.
RECURSIVE CutAtBlanks(_, _, _)
CutAtBlanks(lines, blocks, current) ==
    IF lines = << >> THEN [blocks |-> blocks, rest |-> current]
    ELSE IF Head(lines) = BlankLine
    THEN CutAtBlanks(Tail(lines), Append(blocks, current), << >>)
    ELSE CutAtBlanks(Tail(lines), blocks, Append(current, Head(lines)))

DayBlocks(lines) == CutAtBlanks(lines, << >>, << >>).blocks

AfterLastBlank(lines) == CutAtBlanks(lines, << >>, << >>).rest

\* `out` is what display_basic_currencies printed (main is at its first
\* Y/N prompt).
ShowsBasic == pc = "prompt" /\ lastChoice = NoInput

\* `out` is a day-by-day listing.
ShowsDays == \E k \in 1..Len(out) : out[k].kind = "header"

\* C1: for every accepted day count and every completion order of the
\* get_rates tasks in which none fails, slot i of the results handed to the
\* displays is the outcome of the request for the date today - i: the
\* parsed body of a 200 answer, None for a 404.
C1_ResultsInRequestOrder ==
    (Fetched /\ days >= 1) =>
        /\ Len(results) = days
        /\ \A i \in 0..(days - 1) :
             /\ Cardinality(AnswersFor(TodayMinus(i))) = 1
             /\ \A r \in AnswersFor(TodayMinus(i)) :
                  \/ r.status = 200 /\ results[i + 1] = Json(r.body)
                  \/ r.status = 404 /\ results[i + 1] = None

\* C1 witness: the older day's request finished first and the two slots
\* hold different outcomes.
C1_Witness ==
    /\ pc = "prompt"
    /\ days = 2
    /\ completed = << 2, 1 >>
    /\ results[1] = Json(<< TableA >>)
    /\ results[2] = None

\* C2: when the fetch phase completes without an error the results have
\* exactly `days` slots, and the date printed in the header of slot i by
\* either displayer is today - i, the date the request of slot i was sent
\* for.
C2_LengthAndLabels ==
    /\ (Fetched /\ days >= 1) =>
          /\ Len(results) = days
          /\ Len(tasks) = days
          /\ \A i \in 1..days : BagIn(tasks[i].date, requests)
    /\ (ShowsBasic /\ days >= 1) => ShowsDays
    /\ ShowsDays =>
          /\ HeaderDates(out) = [i \in 1..days |-> tasks[i].date]
          /\ HeaderDates(out) = [i \in 1..days |-> TodayMinus(i - 1)]

\* C2 witness: two days fetched on the 1st of March of a leap year; the
\* second header is the 29th of February.
C2_Witness ==
    /\ ShowsBasic
    /\ days = 2
    /\ Len(results) = 2
    /\ HeaderDates(out) = << << 2024, 3, 1 >>, << 2024, 2, 29 >> >>

\* The typed day count does not parse as an integer, or is above ten.
InvalidDayCount ==
    /\ typedDays # NoInput
    /\ \/ typedDays \in { << "1", "1" >>, << " ", "1", "2" >>, << "a", "b", "c" >>,
                         << "2", ".", "5" >>, << >> }
       \/ ~ParseInt(typedDays).ok
       \/ ParseInt(typedDays).val > 10

\* C3: after a startup input that is not an integer or is greater than 10
\* the program has printed one error line and has ended: no task was
\* created, no GET was sent, no displayer ran, no prompt was answered, and
\* no step is possible.
C3_InvalidInputRejected ==
    InvalidDayCount =>
        /\ pc = "rejected"
        /\ out \in { << ErrorNotInt >>, << ErrorTooMany >> }
        /\ tasks = << >>
        /\ requests = EmptyBag
        /\ served = {}
        /\ outer = NoFuture
        /\ basicCalls = 0
        /\ additionalCalls = 0
        /\ lastChoice = NoInput
        /\ lastCode = NoInput
        /\ ~ENABLED Next

\* C3 witness: " 12" was typed.
C3_Witness ==
    /\ typedDays = << " ", "1", "2" >>
    /\ pc = "rejected"
    /\ out = << ErrorTooMany >>

\* Some request was answered with a status other than 200 and 404.
SomeErrorStatus == \E e \in served : e.response.status \notin {200, 404}

\* C4: once a get_rates call has ended with a status other than 200 or 404
\* the fetch fails as a whole: gather's future holds the exception, main
\* never gets a list of results, display_basic_currencies is never called
\* and the Y/N loop is never entered, whatever the other calls returned and
\* in whatever order.
C4_ErrorStatusFailsRun ==
    SomeErrorStatus =>
        /\ outer.st = "exception"
        /\ pc \in {"gather", "crashed"}
        /\ results = << >>
        /\ basicCalls = 0
        /\ additionalCalls = 0
        /\ out = << >>
        /\ lastChoice = NoInput
        /\ (pc = "gather" => ENABLED MainResume)

\* C4 witness: the second request succeeded first, then the first request
\* got a 500, and the run ended with the exception.
C4_Witness ==
    /\ pc = "crashed"
    /\ days = 2
    /\ completed = << 2, 1 >>
    /\ tasks[2].ret = Json(<< TableA >>)
    /\ tasks[1].ret = Raised(500)

\* Every request of the run was sent and answered with a 404.
AllNotFound ==
    /\ days >= 1
    /\ Len(tasks) = days
    /\ \A i \in 1..days : AnswersFor(tasks[i].date) = { [status |-> 404, body |-> << >>] }

\* C5: a 404 is not an error.  The slot of a date answered with 404 is
\* None; in the listing of either displayer the block of such a day is its
\* date header followed by exactly one "No data." line; and a run in which
\* every date is answered with 404 does not fail: gather delivers a result
\* and main goes on to the Y/N prompt.
C5_NotFoundIsNoData ==
    /\ Fetched =>
          \A i \in 1..Len(results) :
              AnswersFor(tasks[i].date) = { [status |-> 404, body |-> << >>] }
                  => results[i] = None
    /\ ShowsDays =>
          /\ Len(DayBlocks(out)) = Len(results)
          /\ \A i \in 1..Len(results) :
                results[i] = None
                    => DayBlocks(out)[i] = << Header(TodayMinus(i - 1)), NoData >>
    /\ AllNotFound =>
          /\ outer = [st |-> "result", value |-> [i \in 1..days |-> None], status |-> 0]
          /\ pc \in {"gather", "prompt", "done"}
          /\ (pc = "gather" => ENABLED MainResume)
          /\ (ShowsBasic => ShowsDays)

\* C5 witness: both dates were answered with 404 and main is at the Y/N
\* prompt after printing "No data." for each day.
C5_Witness ==
    /\ AllNotFound
    /\ days = 2
    /\ ShowsBasic
    /\ today = << 2026, 1, 1 >>
    /\ out = << Header(<< 2026, 1, 1 >>), NoData, BlankLine,
                Header(<< 2025, 12, 31 >>), NoData, BlankLine >>

\* A slot holds a table: a non-empty list.
Present(result) == result.kind = "json" /\ Len(result.body) >= 1

\* The rate lines of the entries of `rates` whose code is in `codes`, in
\* the order of `rates`.
LinesOfCodes(rates, codes) ==
    LET wanted(c) == c.code \in codes
        kept == SelectSeq(rates, wanted)
    IN  [k \in 1..Len(kept) |-> RateLine(kept[k])]

\* C6: for a non-empty list of results display_basic_currencies prints,
\* day by day in slot order, the header with the day's date, then for a
\* table one line per entry whose code is EUR or USD in table order and no
\* other line, or for an absent or empty slot the single line "No data.",
\* then a blank line; nothing else is printed.
C6_BasicDisplayLines ==
    (ShowsBasic /\ results # << >>) =>
        /\ AfterLastBlank(out) = << >>
        /\ Len(DayBlocks(out)) = Len(results)
        /\ \A i \in 1..Len(results) :
              DayBlocks(out)[i] =
                  << Header(TodayMinus(i - 1)) >>
                    \o (IF Present(results[i])
                        THEN LinesOfCodes(results[i].body[1].rates, {EUR, USD})
                        ELSE << NoData >>)

\* C6 witness: day 0 has the table that lists USD, GBP, EUR and day 1 is
\* absent.
C6_Witness ==
    /\ ShowsBasic
    /\ today = << 2024, 3, 1 >>
    /\ results = << Json(<< TableA >>), None >>
    /\ out = << Header(<< 2024, 3, 1 >>),
                RateLine(Rate("dolar amerykanski", USD, 400)),
                RateLine(Rate("euro", EUR, 430)),
                BlankLine,
                Header(<< 2024, 2, 29 >>),
                NoData,
                BlankLine >>

\* The upper-case form of each abbreviation of CodeInputs.
CapitalCode ==
    [t \in CodeInputs |->
        IF t \in { GBP, << "g", "b", "p" >> } THEN GBP
        ELSE IF t = << "C", "h", "f" >> THEN CHF
        ELSE IF t = << "e", "u", "r" >> THEN EUR
        ELSE << "X", "X", "X" >>]

\* The latest step called display_additional_currencies, which read an
\* abbreviation.
CodeEntered == lastCode # NoInput

\* The first entry of `rates` with the code, as a list of at most one line.
FirstOfCode(rates, code) ==
    LET at == { k \in 1..Len(rates) : rates[k].code = code }
    IN  IF at = {} THEN << >>
        ELSE << RateLine(rates[CHOOSE k \in at : \A j \in at : k <= j]) >>

\* C7: for an abbreviation that is in the available set
\* display_additional_currencies prints, day by day in slot order, the
\* date header, then for a table the line of the first entry with that code
\* (one line at most, also when the code is listed twice; none when the
\* table lacks the code), or "No data." for an absent or empty slot, then a
\* blank line.
C7_AdditionalDisplayLines ==
    (CodeEntered /\ CapitalCode[lastCode] \in additional_currencies) =>
        /\ pc = "prompt"
        /\ AfterLastBlank(out) = << >>
        /\ Len(DayBlocks(out)) = Len(results)
        /\ \A i \in 1..Len(results) :
              DayBlocks(out)[i] =
                  << Header(TodayMinus(i - 1)) >>
                    \o (IF Present(results[i])
                        THEN FirstOfCode(results[i].body[1].rates, CapitalCode[lastCode])
                        ELSE << NoData >>)

\* C7 witness: GBP was asked for; day 0 has the table that lists GBP
\* twice and day 1 is absent.
C7_Witness ==
    /\ lastCode = GBP
    /\ today = << 2024, 3, 1 >>
    /\ results = << Json(<< TableB >>), None >>
    /\ out = << Header(<< 2024, 3, 1 >>),
                RateLine(Rate("funt szterling", GBP, 521)),
                BlankLine,
                Header(<< 2024, 2, 29 >>),
                NoData,
                BlankLine >>

\* C8: for an abbreviation that is not in the available set
\* display_additional_currencies prints the line "There is no such currency
\* on the list." and nothing else, it was called once and asked for the
\* abbreviation once, and main is back at the Y/N prompt.
C8_UnknownCodeReported ==
    (CodeEntered /\ CapitalCode[lastCode] \notin additional_currencies) =>
        /\ out = << NoSuchCurrency >>
        /\ additionalCalls = 1
        /\ pc = "prompt"
        /\ ENABLED Answer

\* C8 witness: "eur" was asked for; EUR is in the fetched table but not
\* in the available set.
C8_Witness ==
    /\ lastCode = << "e", "u", "r" >>
    /\ results = << Json(<< TableA >>) >>
    /\ additional_currencies = { GBP }
    /\ out = << NoSuchCurrency >>
    /\ pc = "prompt"

\* What each line of ChoiceInputs means at the Y/N prompt.
Yes == { << "Y" >>, << "y" >> }

No == { << "N" >>, << "n" >> }

\* C9: in the interaction loop an answer Y calls
\* display_additional_currencies once and leads back to the prompt; an
\* answer that is neither Y nor N prints the incorrect-selection line, calls
\* no displayer and leads back to the prompt; the loop is left exactly on
\* an answer N, which prints nothing; and after leaving the loop the
\* program has ended, with no further step.
C9_LoopSteps ==
    [][ /\ pc = "prompt" =>
             /\ lastChoice' \in ChoiceInputs
             /\ basicCalls' = basicCalls
             /\ lastChoice' \in Yes =>
                   /\ pc' = "prompt"
                   /\ additionalCalls' = 1
                   /\ out' \notin { << >>, << IncorrectSelection >> }
             /\ lastChoice' \in No =>
                   /\ pc' = "done"
                   /\ additionalCalls' = 0
                   /\ out' = << >>
             /\ lastChoice' \notin (Yes \cup No) =>
                   /\ pc' = "prompt"
                   /\ additionalCalls' = 0
                   /\ lastCode' = NoInput
                   /\ out' = << IncorrectSelection >>
             /\ (pc' = "done") <=> (lastChoice' \in No)
        /\ pc' = "done" => (pc = "prompt" /\ lastChoice' \in No)
        /\ pc # "done"
      ]_vars

\* C9 witness: an invalid answer was given and main is at the prompt again.
C9_Witness ==
    /\ pc = "prompt"
    /\ lastChoice = << "x" >>
    /\ out = << IncorrectSelection >>
    /\ additionalCalls = 0
    /\ ENABLED Answer

\* The upper-case form of each line of ChoiceInputs.
CapitalChoice ==
    [c \in ChoiceInputs |->
        IF c \in Yes THEN << "Y" >> ELSE IF c \in No THEN << "N" >> ELSE << "X" >>]

\* C10: the input is case-insensitive at both prompts: a pass of the loop
\* on an answer and an abbreviation leads to the state and prints the lines
\* that the pass leads to and prints for their upper-case forms.
C10_CaseInsensitive ==
    [][ pc = "prompt" =>
            \A typed \in CodeInputs :
                (lastCode' \in { typed, NoInput }) =>
                    /\ pc' = LoopIteration(CapitalChoice[lastChoice'], CapitalCode[typed]).pc
                    /\ out' = LoopIteration(CapitalChoice[lastChoice'], CapitalCode[typed]).out
                    /\ additionalCalls' =
                           LoopIteration(CapitalChoice[lastChoice'], CapitalCode[typed]).calls
                    /\ (lastCode' = typed) =
                           LoopIteration(CapitalChoice[lastChoice'], CapitalCode[typed]).codeRead
      ]_vars

\* C10 witness: "y" and then "gbp" were typed and the GBP line of the
\* table was printed.
C10_Witness ==
    /\ pc = "prompt"
    /\ lastChoice = << "y" >>
    /\ lastCode = << "g", "b", "p" >>
    /\ results = << Json(<< TableA >>) >>
    /\ today = << 2026, 1, 1 >>
    /\ out = << Header(<< 2026, 1, 1 >>),
                RateLine(Rate("funt szterling", GBP, 520)),
                BlankLine >>

DayBody(i) == Tail(DayBlocks(out)[i])

\* C12 as stated: in the listing of either displayer an absent slot (None,
\* from a 404) renders distinctly from a slot that is present but empty
\* (the empty list).
C12_AbsentDistinctFromEmpty ==
    ShowsDays =>
        \A i, j \in 1..Len(results) :
            (results[i] = None /\ results[j] = Json(<< >>)) => DayBody(i) # DayBody(j)

\* C12, amended: in the listing of either displayer an absent slot and a
\* slot that is present but empty render alike: after the date header each
\* has the single line "No data.".
C12_AbsentAndEmptyAlike ==
    ShowsDays =>
        /\ Len(DayBlocks(out)) = Len(results)
        /\ \A i \in 1..Len(results) :
              results[i] \in { None, Json(<< >>) } => DayBody(i) = << NoData >>

\* C12 witness: day 0 is absent and day 1 is the empty list.
C12_Witness ==
    /\ ShowsBasic
    /\ today = << 2026, 1, 1 >>
    /\ results = << None, Json(<< >>) >>
    /\ out = << Header(<< 2026, 1, 1 >>), NoData, BlankLine,
                Header(<< 2025, 12, 31 >>), NoData, BlankLine >>

\* The currency codes the server can list.
KnownCodes == { EUR, USD, GBP, CHF }

\* The code is listed in the table of some fetched day.
ListedSomeDay(code) ==
    \E i \in 1..Len(results) :
        /\ Present(results[i])
        /\ \E k \in 1..Len(results[i].body[1].rates) : results[i].body[1].rates[k].code = code

\* C13: the set of available currencies handed to
\* display_additional_currencies never contains EUR or USD, contains every
\* other code listed in the table of at least one fetched day, and contains
\* no code listed on none.
C13_AvailableSet ==
    /\ EUR \notin additional_currencies
    /\ USD \notin additional_currencies
    /\ additional_currencies \subseteq KnownCodes
    /\ \A code \in additional_currencies : ListedSomeDay(code)
    /\ Fetched =>
          \A code \in KnownCodes \ { EUR, USD } :
              ListedSomeDay(code) => code \in additional_currencies

\* C13 witness: the two days list USD, GBP, EUR and GBP, CHF, GBP, and
\* display_additional_currencies was called with {GBP, CHF}.
C13_Witness ==
    /\ pc = "prompt"
    /\ additionalCalls = 1
    /\ results = << Json(<< TableA >>), Json(<< TableB >>) >>
    /\ additional_currencies = { GBP, CHF }

\* Some get_rates task has raised.
SomeTaskRaised == \E i \in 1..Len(tasks) : tasks[i].ret.kind = "exc"

\* Main has woken up from `await asyncio.gather(*tasks)`.
Resumed == pc \in {"prompt", "done", "crashed"}

\* C14 as stated: main stays suspended at the join until every launched
\* get_rates task has reached a terminal state (success, absent or
\* failure); when one task fails main does not resume while a sibling is
\* still pending.  A task still pending when main resumed is the one the
\* end of the run cancels.
C14_JoinWaitsForAll ==
    Resumed => \A i \in 1..Len(tasks) : tasks[i].st = "done"

\* C14, amended: main stays suspended at the join until every launched
\* get_rates task has ended in success or absent, or until the first task
\* fails; on the first failure main can resume with the exception at once,
\* also while sibling tasks are still pending, and it resumes with an
\* exception only after a task has failed.
C14_JoinWaitsUnlessFailure ==
    /\ Fetched =>
          \A i \in 1..Len(tasks) :
              tasks[i].st = "done" /\ tasks[i].ret.kind \in {"json", "none"}
    /\ pc = "crashed" => SomeTaskRaised
    /\ (pc = "gather" /\ SomeTaskRaised) =>
          /\ outer.st = "exception"
          /\ ENABLED MainResume
    /\ (pc = "gather" /\ ~SomeTaskRaised /\ \E i \in 1..Len(tasks) : tasks[i].st # "done") =>
          /\ outer.st = "pending"
          /\ ~ENABLED MainResume

\* C14 witness: the first request got a 500 while the second was still in
\* flight; main resumed with the exception and the second task was
\* cancelled.
C14_Witness ==
    /\ pc = "crashed"
    /\ days = 2
    /\ completed = << 1 >>
    /\ tasks[1].ret = Raised(500)
    /\ tasks[2].st = "cancelled"
    /\ BagIn(tasks[2].date, requests)

\* A get_rates task of the run has not finished yet.
SomeTaskPending == \E i \in 1..Len(tasks) : tasks[i].st \in {"created", "sent"}

\* C15: the fetch phase happens once and display_basic_currencies is
\* called once, after the join and before the first Y/N prompt: it has not
\* been called while main is at the startup prompt or suspended at the
\* join, it has been called exactly once whenever main is at the Y/N prompt
\* or past it, and never more than once; no task is launched twice; and
\* while a get_rates task is pending no displayer has printed anything and
\* no Y/N prompt has been shown or answered.
C15_FetchThenDisplayOnce ==
    /\ basicCalls \in {0, 1}
    /\ pc \in {"start", "gather"} =>
          /\ basicCalls = 0
          /\ additionalCalls = 0
          /\ out = << >>
          /\ lastChoice = NoInput
    /\ Fetched =>
          /\ basicCalls = 1
          /\ outer.st = "result"
          /\ results = outer.value
    /\ ShowsBasic => out = DisplayBasic(today, results)
    /\ lastChoice # NoInput => Fetched
    /\ Len(tasks) \in {0, days}
    /\ BagCardinality(requests) <= Len(tasks)
    /\ SomeTaskPending =>
          /\ pc = "gather"
          /\ basicCalls = 0
          /\ additionalCalls = 0
          /\ out = << >>
          /\ lastChoice = NoInput

\* C15 witness: both tasks have finished, the basic currencies were shown
\* once and main is at its first Y/N prompt.
C15_Witness ==
    /\ ShowsBasic
    /\ days = 2
    /\ basicCalls = 1
    /\ \A i \in 1..2 : tasks[i].st = "done"
    /\ Len(out) > 1

\* The dates today, today - 1, ..., today - (days - 1).
DatesOfRun == { TodayMinus(i) : i \in 0..(days - 1) }

\* C16: for an accepted day count of at least one, a run makes exactly
\* `days` get_rates calls, one for each of the pairwise distinct dates
\* today, ..., today - (days - 1); at most one GET is sent per date, also
\* after a 404 or an error status, and each is answered at most once; when
\* the fetch phase has ended with a list, exactly one GET per date was sent,
\* and none is added during the interaction loop.
C16_OneRequestPerDate ==
    (pc \notin {"start", "rejected"} /\ days >= 1) =>
        /\ Len(tasks) = days
        /\ { tasks[i].date : i \in 1..days } = DatesOfRun
        /\ Cardinality(DatesOfRun) = days
        /\ \A d \in DatesOfRun : CopiesIn(d, requests) <= 1
        /\ BagToSet(requests) \subseteq DatesOfRun
        /\ \A d \in DatesOfRun : Cardinality(AnswersFor(d)) <= CopiesIn(d, requests)
        /\ { e.date : e \in served } \subseteq BagToSet(requests)
        /\ Fetched =>
              /\ BagCardinality(requests) = days
              /\ BagToSet(requests) = DatesOfRun

\* C16 witness: two days were asked for, the older one was answered with
\* 404, and after an answer at the Y/N prompt there are still exactly the
\* two requests.
C16_Witness ==
    /\ pc = "prompt"
    /\ lastChoice # NoInput
    /\ today = << 2026, 1, 1 >>
    /\ days = 2
    /\ requests = SetToBag({ << 2026, 1, 1 >>, << 2025, 12, 31 >> })
    /\ AnswersFor(<< 2025, 12, 31 >>) = { [status |-> 404, body |-> << >>] }

\* C17: after the fetch phase the list of results and the set of
\* available currencies never change, whatever is answered at the prompts:
\* each call of display_additional_currencies gets the list
\* display_basic_currencies printed and the set computed from it, and
\* asking for the same listed currency again prints the same lines.
C17_ResultsReadOnly ==
    [][ Fetched =>
            /\ results' = results
            /\ additional_currencies' = additional_currencies
            /\ today' = today
            /\ results' = outer.value
            /\ (CodeEntered /\ lastCode' = lastCode
                    /\ CapitalCode[lastCode] \in additional_currencies) => out' = out
      ]_vars

\* C17 witness: after the answer "Y" and the abbreviation "Chf" the list
\* is still the one gather returned and the set is still {GBP, CHF}.
C17_Witness ==
    /\ pc = "prompt"
    /\ lastChoice = << "Y" >>
    /\ lastCode = << "C", "h", "f" >>
    /\ results = << Json(<< TableB >>), Json(<< TableA >>) >>
    /\ results = outer.value
    /\ additional_currencies = { GBP, CHF }
    /\ today = << 2024, 3, 1 >>
    /\ out = << Header(<< 2024, 3, 1 >>),
                RateLine(Rate("frank szwajcarski", CHF, 450)),
                BlankLine,
                Header(<< 2024, 2, 29 >>),
                BlankLine >>

\* The typed day count is zero or a negative integer.
NonPositiveDayCount == typedDays \in { << "0" >>, << "-", "1" >> }

\* C18: a day count of zero or below passes the startup check; the run
\* creates no task and sends no GET, the list of results is empty,
\* display_basic_currencies prints only "No data available.", the set of
\* available currencies is empty, main is in the Y/N loop, and on every
\* answer Y display_additional_currencies prints "No additional currencies
\* available." without asking for an abbreviation.
C18_NonPositiveDays ==
    NonPositiveDayCount =>
        /\ days <= 0
        /\ pc \in {"prompt", "done"}
        /\ tasks = << >>
        /\ requests = EmptyBag
        /\ served = {}
        /\ results = << >>
        /\ additional_currencies = {}
        /\ basicCalls = 1
        /\ ShowsBasic => out = << NoDataAvailable >>
        /\ lastCode = NoInput
        /\ lastChoice \in Yes => (out = << NoAdditional >> /\ additionalCalls = 1 /\ pc = "prompt")
        /\ pc = "prompt" => ENABLED Answer

\* C18 witness: "-1" was typed at startup and "y" at the Y/N prompt.
C18_Witness ==
    /\ typedDays = << "-", "1" >>
    /\ days = 0 - 1
    /\ pc = "prompt"
    /\ lastChoice = << "y" >>
    /\ out = << NoAdditional >>

\* The table of slot i lists the code.
ListedOnDay(i, code) ==
    \E k \in 1..Len(results[i].body[1].rates) : results[i].body[1].rates[k].code = code

\* C19: when display_additional_currencies lists the days for a code of
\* the available set, a day whose table is present but lacks the code shows
\* the date header directly followed by the blank line: no rate line and
\* no "No data." line.
C19_TableWithoutCode ==
    (CodeEntered /\ CapitalCode[lastCode] \in additional_currencies) =>
        /\ Len(DayBlocks(out)) = Len(results)
        /\ \A i \in 1..Len(results) :
              (Present(results[i]) /\ ~ListedOnDay(i, CapitalCode[lastCode])) =>
                  DayBlocks(out)[i] = << Header(TodayMinus(i - 1)) >>

\* C19 witness: CHF was asked for; the table of day 0 lists it and the
\* table of day 1 does not.
C19_Witness ==
    /\ lastCode = << "C", "h", "f" >>
    /\ today = << 2026, 1, 1 >>
    /\ results = << Json(<< TableB >>), Json(<< TableA >>) >>
    /\ out = << Header(<< 2026, 1, 1 >>),
                RateLine(Rate("frank szwajcarski", CHF, 450)),
                BlankLine,
                Header(<< 2025, 12, 31 >>),
                BlankLine >>

====
